---- MODULE Spec2Model ----
(***************************************************************************)
(* A model of src/src/data_set.py (with the configuration entries of      *)
(* src/src/config.py): the POS and DT enumerations, extractFeatures,       *)
(* create, predictionsFromLabels, savePredictions and the command-line     *)
(* entry point.                                                            *)
(*                                                                         *)
(* Conventions.                                                            *)
(*  - A Python string is a sequence of one-character strings, so that      *)
(*    replace(), upper() and lower() are computed character by character.  *)
(*  - A Python Optional is a sequence of length 0 (None) or 1 (a value).   *)
(*  - A Python list is a sequence; Python position p is index p + 1.       *)
(*  - A raised exception is recorded by its class name in the err field or *)
(*    variable of the call that raised it.                                 *)
(***************************************************************************)
EXTENDS Integers, Sequences, FiniteSets, TLC

VARIABLES
    pc,                 \* position of the running call
    \* ---- a direct call of extractFeatures
    x_node, x_glove, x_corrections, x_ret,
    \* ---- calls of the DT registry and of savePredictions
    dt_value, dt_name, dt_back,
    predictions, out, file_written,
    \* ---- the entry point, create and predictionsFromLabels
    entry, corpora, test, dir_exists, io,
    text_len, trees_len, glove_len, corr_len,
    text_data, parse_trees_list, glove_indices, corrections,
    index, features, labels, row_sentence, err, ret,
    pred_labels, l_index, res_list

vars_extract == <<x_node, x_glove, x_corrections, x_ret>>
vars_codec == <<dt_value, dt_name, dt_back, predictions, out, file_written>>
vars_files == <<text_len, trees_len, glove_len, corr_len,
                text_data, parse_trees_list, glove_indices, corrections>>
vars_create == <<index, features, labels, row_sentence, ret>>
vars_decode == <<pred_labels, l_index, res_list>>
vars_main == <<entry, corpora, test, dir_exists, io, err>>
vars == <<pc, vars_extract, vars_codec, vars_main, vars_files, vars_create,
          vars_decode>>

-----------------------------------------------------------------------------
(* Bounds of the model. *)

\* most sentences in a corpus
MaxSentences == 2
\* most leaves of the sentence handed to a direct call of extractFeatures
MaxLeaves == 3
\* most prediction slots in one call of savePredictions, over all sentences
MaxSlots == 3

-----------------------------------------------------------------------------
(* Python values. *)

None == <<>>
Some(v) == <<v>>

Min(a, b) == IF a < b THEN a ELSE b
Abs(a) == IF a < 0 THEN -a ELSE a

RECURSIVE SumSeq(_)
SumSeq(s) == IF s = <<>> THEN 0 ELSE Head(s) + SumSeq(Tail(s))

\* str.replace(old, new) for one-character old and new
Replace(s, old, new) == [k \in 1..Len(s) |-> IF s[k] = old THEN new ELSE s[k]]

UpperChar(c) ==
    CASE c = "a" -> "A" [] c = "e" -> "E" [] c = "h" -> "H"
      [] c = "n" -> "N" [] c = "t" -> "T" [] c = "x" -> "X"
      [] OTHER -> c
LowerChar(c) ==
    CASE c = "A" -> "a" [] c = "E" -> "e" [] c = "H" -> "h"
      [] c = "N" -> "n" [] c = "T" -> "t" [] c = "X" -> "x"
      [] OTHER -> c
\* str.upper() and str.lower()
Upper(s) == [k \in 1..Len(s) |-> UpperChar(s[k])]
Lower(s) == [k \in 1..Len(s) |-> LowerChar(s[k])]

-----------------------------------------------------------------------------
(* class POS(IntEnum): member k of the sequence has value k. *)

POSMembers == <<
    <<"C","C">>, <<"C","D">>, <<"D","T">>, <<"E","X">>, <<"F","W">>,
    <<"I","N">>, <<"J","J">>, <<"J","J","R">>, <<"J","J","S">>, <<"L","S">>,
    <<"M","D">>, <<"N","N">>, <<"N","N","S">>, <<"N","N","P">>,
    <<"N","N","P","S">>, <<"P","D","T">>, <<"P","O","S">>, <<"P","R","P">>,
    <<"P","R","P","_">>, <<"R","B">>, <<"R","B","R">>, <<"R","B","S">>,
    <<"R","P">>, <<"S","Y","M">>, <<"T","O">>, <<"U","H">>, <<"V","B">>,
    <<"V","B","D">>, <<"V","B","G">>, <<"V","B","N">>, <<"V","B","P">>,
    <<"V","B","Z">>, <<"W","D","T">>, <<"W","P">>, <<"W","P","_">>,
    <<"W","R","B">> >>

\* POS.hasPOSName
hasPOSName(name) == \E k \in 1..Len(POSMembers) : POSMembers[k] = name

\* POS.valueByName, called only under hasPOSName
POS_valueByName(name) == CHOOSE k \in 1..Len(POSMembers) : POSMembers[k] = name

-----------------------------------------------------------------------------
(* class DT(IntEnum) *)

DTMembers ==
    << [name |-> <<"A">>, value |-> 1],
       [name |-> <<"A","N">>, value |-> 2],
       [name |-> <<"T","H","E">>, value |-> 3] >>
DT_A == DTMembers[1].value
DT_THE == DTMembers[3].value

\* DT.valueByName: cls.__members__[name.upper()].value, KeyError when absent
DT_valueByName_exact(name) ==
    IF \E k \in 1..Len(DTMembers) : DTMembers[k].name = name
    THEN [err |-> None,
          val |-> DTMembers[CHOOSE k \in 1..Len(DTMembers) : DTMembers[k].name = name].value]
    ELSE [err |-> Some("KeyError"), val |-> 0]
DT_valueByName(name) ==
    IF \E k \in 1..Len(DTMembers) : DTMembers[k].name = Upper(name)
    THEN [err |-> None,
          val |-> DTMembers[CHOOSE k \in 1..Len(DTMembers) :
                                DTMembers[k].name = Upper(name)].value]
    ELSE [err |-> Some("KeyError"), val |-> 0]

\* DT.nameByValue: outside A..THE the raise statement itself fails, since
\* "Wrong value for enumeration: " + value adds an int to a str (TypeError);
\* inside, the first member of that value
DT_nameByValue(value) ==
    IF value < DT_A \/ value > DT_THE
    THEN [err |-> Some("TypeError"), val |-> <<>>]
    ELSE [err |-> None,
          val |-> SelectSeq(DTMembers, LAMBDA m : m.value = value)[1].name]

\* The offset for POS features start
offset == 2
\* The number of features extracted
n_features == offset + Len(POSMembers) + 1

-----------------------------------------------------------------------------
(* Parse trees (tree_dict, not part of the sources at hand).  A tree is    *)
(* its leaves in document order, each with POS tag, token and 0-based      *)
(* position s_index, and its subtrees in document order, each the span     *)
(* lo..hi of the leaves it covers.                                         *)

Leaf(pos, name, s_index) == [pos |-> pos, name |-> name, s_index |-> s_index]

\* node.leaves()
leaves(node) == node.leaves

\* st.leaves() of a subtree of node
subtreeLeaves(node, st) == SubSeq(node.leaves, st.lo, st.hi)

Articles == << <<"a">>, <<"a","n">>, <<"t","h","e">> >>
NounTags == << <<"N","N">>, <<"N","N","S">>, <<"N","N","P">>, <<"N","N","P","S">> >>

\* any(x == y for y in lst)
AnyEquals(x, lst) == \E k \in 1..Len(lst) : lst[k] = x

IsArticleDT(leaf) == leaf.pos = <<"D","T">> /\ AnyEquals(leaf.name, Articles)

\* node.dpaSubtrees(): the subtrees whose leaf span holds an article-bearing
\* determiner, in document order
dpaSubtrees(node) ==
    SelectSeq(node.subtrees,
              LAMBDA st : \E k \in st.lo..st.hi : IsArticleDT(node.leaves[k]))

-----------------------------------------------------------------------------
(* extractFeatures *)

\* state of the scan of one subtree at the top of the leaf loop
ScanStart ==
    [row |-> [k \in 1..n_features |-> 0], label |-> 0,
     dta_node |-> None, nn_node |-> None, err |-> None]

Fail(acc, e) == [acc EXCEPT !.err = Some(e)]

\* pos_name = node.pos.replace("$", "_")
Sanitize_none(pos) == pos
Sanitize(pos) == Replace(pos, "$", "_")

\* lines 143-146: collect POS type
CountPOS(row, leaf) ==
    IF hasPOSName(Sanitize(leaf.pos))
    THEN [row EXCEPT ![offset + POS_valueByName(Sanitize(leaf.pos)) + 1] = @ + 1]
    ELSE row

\* lines 148-154: found DT with article (no test of dta_node: every such leaf
\* stores its index and, when it has a correction, its label)
StoreDTA_first(acc, row, leaf, glove, corrs) ==
    IF acc.dta_node # None THEN [acc EXCEPT !.row = row]
    ELSE IF leaf.s_index >= Len(glove) THEN Fail(acc, "IndexError")
    ELSE LET acc1 == [acc EXCEPT !.row = [row EXCEPT ![1] = glove[leaf.s_index + 1]],
                                 !.dta_node = Some(leaf.s_index)]
         IN  IF corrs = None THEN acc1
             ELSE IF leaf.s_index >= Len(corrs[1]) THEN Fail(acc1, "IndexError")
             ELSE IF corrs[1][leaf.s_index + 1] = None THEN acc1
             ELSE LET v == DT_valueByName(corrs[1][leaf.s_index + 1][1])
                  IN  IF v.err # None THEN Fail(acc1, v.err[1])
                      ELSE [acc1 EXCEPT !.label = v.val]
StoreDTA(acc, row, leaf, glove, corrs) ==
    IF leaf.s_index >= Len(glove) THEN Fail(acc, "IndexError")
    ELSE LET acc1 == [acc EXCEPT !.row = [row EXCEPT ![1] = glove[leaf.s_index + 1]],
                                 !.dta_node = Some(leaf.s_index)]
         IN  IF corrs = None THEN acc1
             ELSE IF leaf.s_index >= Len(corrs[1]) THEN Fail(acc1, "IndexError")
             ELSE IF corrs[1][leaf.s_index + 1] = None THEN acc1
             ELSE LET v == DT_valueByName(corrs[1][leaf.s_index + 1][1])
                  IN  IF v.err # None THEN Fail(acc1, v.err[1])
                      ELSE [acc1 EXCEPT !.label = v.val]

\* lines 156-159: found first (proper) noun
StoreNN(acc, row, leaf, glove) ==
    IF leaf.s_index >= Len(glove) THEN Fail(acc, "IndexError")
    ELSE [acc EXCEPT !.row = [row EXCEPT ![2] = glove[leaf.s_index + 1]],
                     !.nn_node = Some(leaf.s_index)]

\* lines 161-163: store distance between DT and NN(PS)
StoreDistance(acc) ==
    IF acc.err = None /\ acc.dta_node # None /\ acc.nn_node # None
    THEN [acc EXCEPT !.row[3] = Abs(acc.dta_node[1] - acc.nn_node[1])]
    ELSE acc

\* one pass of the loop over st.leaves()
LeafStep_anynoun(acc, leaf, glove, corrs) ==
    LET row == CountPOS(acc.row, leaf)
    IN  IF IsArticleDT(leaf)
        THEN StoreDistance(StoreDTA(acc, row, leaf, glove, corrs))
        ELSE IF AnyEquals(leaf.pos, NounTags)
        THEN StoreDistance(StoreNN(acc, row, leaf, glove))
        ELSE StoreDistance([acc EXCEPT !.row = row])
LeafStep(acc, leaf, glove, corrs) ==
    LET row == CountPOS(acc.row, leaf)
    IN  IF IsArticleDT(leaf)
        THEN StoreDistance(StoreDTA(acc, row, leaf, glove, corrs))
        ELSE IF acc.nn_node = None /\ AnyEquals(leaf.pos, NounTags)
        THEN StoreDistance(StoreNN(acc, row, leaf, glove))
        ELSE StoreDistance([acc EXCEPT !.row = row])

RECURSIVE ScanLeaves(_, _, _, _)
ScanLeaves(acc, lvs, glove, corrs) ==
    IF lvs = <<>> \/ acc.err # None THEN acc
    ELSE ScanLeaves(LeafStep(acc, Head(lvs), glove, corrs), Tail(lvs), glove, corrs)

\* the scan of every subtree of dpa_subtrees, in order
ScanSites(node, glove, corrs) ==
    LET dpa_subtrees == dpaSubtrees(node)
    IN  [j \in 1..Len(dpa_subtrees) |->
            ScanLeaves(ScanStart, subtreeLeaves(node, dpa_subtrees[j]), glove, corrs)]

\* extractFeatures(node, text, glove, corrections): (features, labels), with
\* labels None when corrections is None; err is the exception that ended it
extractFeatures(node, text, glove, corrs) ==
    LET scans == ScanSites(node, glove, corrs)
        bad == {j \in 1..Len(scans) : scans[j].err # None}
    IN  IF bad # {}
        THEN [err |-> scans[CHOOSE j \in bad : \A i \in bad : j <= i].err,
              f |-> <<>>, l |-> None]
        ELSE [err |-> None,
              f |-> [j \in 1..Len(scans) |-> scans[j].row],
              l |-> IF corrs = None THEN None
                    ELSE Some([j \in 1..Len(scans) |-> scans[j].label])]

-----------------------------------------------------------------------------
(* Inputs. *)

\* the leaves a generated sentence is made of: <<POS tag, token>>
DT_the == << <<"D","T">>, <<"t","h","e">> >>
DT_The == << <<"D","T">>, <<"T","h","e">> >>
NN_cat == << <<"N","N">>, <<"c","a","t">> >>
PRP_its == << <<"P","R","P","$">>, <<"i","t","s">> >>
Period == << <<".">>, <<".">> >>

LeafSeqs(kinds, n) ==
    { [k \in 1..n |-> Leaf(c[k][1], c[k][2], k - 1)] : c \in [1..n -> kinds] }

\* a right-branching tree: the subtrees are the suffixes of the sentence
RightSpans(n) == [k \in 1..n |-> [lo |-> k, hi |-> n]]
\* a left-branching tree: the subtrees are the prefixes, the widest first
LeftSpans(n) == [k \in 1..n |-> [lo |-> 1, hi |-> n + 1 - k]]

Trees(kinds, n, shapes) ==
    { [leaves |-> ls, subtrees |-> sp] : ls \in LeafSeqs(kinds, n), sp \in shapes }

\* embedding indices of a sentence of n leaves
GloveLists(n) == { [k \in 1..n |-> 10 * k] }

\* the entries of a corrections list
CorrEntries == { None, Some(<<"a","n">>), Some(<<"T","h","e">>) }

-----------------------------------------------------------------------------
(* A direct call of extractFeatures on one sentence. *)

IdleExtract ==
    /\ x_node = [leaves |-> <<>>, subtrees |-> <<>>]
    /\ x_glove = <<>> /\ x_corrections = None /\ x_ret = None

IdleCodec ==
    /\ dt_value = 0 /\ dt_name = None /\ dt_back = None
    /\ predictions = <<>> /\ out = None /\ file_written = FALSE

IdlePipeline ==
    /\ entry = "none" /\ corpora = "" /\ test = FALSE /\ dir_exists = FALSE
    /\ io = <<>> /\ err = None
    /\ text_len = 0 /\ trees_len = 0 /\ glove_len = 0 /\ corr_len = 0
    /\ text_data = <<>> /\ parse_trees_list = <<>> /\ glove_indices = <<>>
    /\ corrections = <<>>
    /\ index = 0 /\ features = None /\ labels = None /\ row_sentence = <<>>
    /\ ret = None
    /\ pred_labels = <<>> /\ l_index = 0 /\ res_list = <<>>

\* the text argument: the tokens of the sentence (extractFeatures never reads it)
TextOf(node) == [k \in 1..Len(node.leaves) |-> node.leaves[k].name]

InitExtract ==
    /\ pc = "x_call"
    /\ \E n \in 0..MaxLeaves :
        /\ x_node \in Trees({DT_the, DT_The, NN_cat, PRP_its, Period}, n,
                            {RightSpans(n), LeftSpans(n)})
        /\ x_glove \in GloveLists(n)
        /\ x_corrections \in {None} \cup {Some(c) : c \in [1..n -> CorrEntries]}
    /\ x_ret = None
    /\ IdleCodec /\ IdlePipeline

CallExtractFeatures ==
    /\ pc = "x_call"
    /\ x_ret' = Some(extractFeatures(x_node, TextOf(x_node), x_glove, x_corrections))
    /\ pc' = "x_done"
    /\ UNCHANGED <<x_node, x_glove, x_corrections, vars_codec, vars_main,
                   vars_files, vars_create, vars_decode>>

NextExtract == CallExtractFeatures

SpecExtract == InitExtract /\ [][NextExtract]_vars

-----------------------------------------------------------------------------
(* Properties of extractFeatures, stated over the sentence itself. *)

\* the 36 tags as a tagger writes them
GlossaryTags == <<
    <<"C","C">>, <<"C","D">>, <<"D","T">>, <<"E","X">>, <<"F","W">>,
    <<"I","N">>, <<"J","J">>, <<"J","J","R">>, <<"J","J","S">>, <<"L","S">>,
    <<"M","D">>, <<"N","N">>, <<"N","N","S">>, <<"N","N","P">>,
    <<"N","N","P","S">>, <<"P","D","T">>, <<"P","O","S">>, <<"P","R","P">>,
    <<"P","R","P","$">>, <<"R","B">>, <<"R","B","R">>, <<"R","B","S">>,
    <<"R","P">>, <<"S","Y","M">>, <<"T","O">>, <<"U","H">>, <<"V","B">>,
    <<"V","B","D">>, <<"V","B","G">>, <<"V","B","N">>, <<"V","B","P">>,
    <<"V","B","Z">>, <<"W","D","T">>, <<"W","P">>, <<"W","P","$">>,
    <<"W","R","B">> >>

XDone == pc = "x_done"
XSites == dpaSubtrees(x_node)
XRows == x_ret[1].f
\* positions (indices into the sentence) of the leaves of site j
XSpan(j) == XSites[j].lo..XSites[j].hi
XArticleDTs(j) ==
    {k \in XSpan(j) : /\ x_node.leaves[k].pos = <<"D","T">>
                      /\ x_node.leaves[k].name \in {<<"a">>, <<"a","n">>, <<"t","h","e">>}}
XNouns(j) ==
    {k \in XSpan(j) : x_node.leaves[k].pos \in
        {<<"N","N">>, <<"N","N","S">>, <<"N","N","P">>, <<"N","N","P","S">>}}
XCorrected(j) == {k \in XArticleDTs(j) : x_corrections[1][k] # None}
First(S) == CHOOSE k \in S : \A i \in S : k <= i
Last(S) == CHOOSE k \in S : \A i \in S : k >= i
ClassOfName(name) ==
    CASE name \in {<<"a">>, <<"A">>} -> 1
      [] name \in {<<"a","n">>, <<"A","n">>, <<"A","N">>} -> 2
      [] name \in {<<"t","h","e">>, <<"T","h","e">>, <<"T","H","E">>} -> 3

\* C9: every leaf of a site with a registered tag ("$" written "_") adds one to
\* the slot 2 + indexOf(tag), which lies in 3..38; other leaves add nothing; the
\* slots 3..38 sum to the number of leaves of the span with a registered tag;
\* the row keeps its 39 slots and the slots 1 and 2 stay 0 in a site without noun.
C9_Histogram ==
    XDone =>
        LET sites == dpaSubtrees(x_node)
            rows == x_ret[1].f
        IN  /\ x_ret[1].err = None
            /\ Len(rows) = Len(sites)
            /\ \A j \in 1..Len(sites) :
                LET span == sites[j].lo..sites[j].hi
                    row == rows[j]
                    total == SumSeq(SubSeq(row, 4, 39))
                IN  /\ DOMAIN row = 1..39
                    /\ \A t \in 1..36 :
                        /\ 2 + t \in 3..38
                        /\ row[2 + t + 1] =
                             Cardinality({k \in span : x_node.leaves[k].pos = GlossaryTags[t]})
                    /\ total = Cardinality({k \in span :
                                 \E t \in 1..36 : x_node.leaves[k].pos = GlossaryTags[t]})
                    /\ total <= Cardinality(span)
                    /\ XNouns(j) = {} => row[2] = 0 /\ row[3] = 0

\* a site with a "$" tag, an unregistered tag and registered ones has been scanned
C9_Witness ==
    /\ XDone
    /\ \E j \in 1..Len(XSites) :
        /\ \E k \in XSpan(j) : x_node.leaves[k].pos = <<"P","R","P","$">>
        /\ \E k \in XSpan(j) : x_node.leaves[k].pos = <<".">>
        /\ XRows[j][2 + 19 + 1] = 1
        /\ SumSeq(SubSeq(XRows[j], 4, 39)) = 2

\* C8 as stated: slot 0 is the embedding index of the FIRST article determiner
\* of the site, slot 1 that of the first noun, slot 2 their distance.
C8_FirstDeterminer ==
    XDone =>
        \A j \in 1..Len(XSites) :
            /\ XRows[j][1] = IF XArticleDTs(j) = {} THEN 0
                             ELSE x_glove[First(XArticleDTs(j))]
            /\ XRows[j][2] = IF XNouns(j) = {} THEN 0 ELSE x_glove[First(XNouns(j))]
            /\ XRows[j][3] = IF XArticleDTs(j) = {} \/ XNouns(j) = {} THEN 0
                             ELSE Abs(First(XArticleDTs(j)) - First(XNouns(j)))

\* C8 amended: slot 0 is the embedding index of the LAST article determiner of
\* the site (0 if none), slot 1 that of the FIRST noun (0 if none), slot 2 the
\* distance between that last determiner and that first noun (0 unless both).
C8_LastDeterminer ==
    XDone =>
        /\ x_ret[1].err = None
        /\ \A j \in 1..Len(XSites) :
            /\ XRows[j][1] = IF XArticleDTs(j) = {} THEN 0
                             ELSE x_glove[Last(XArticleDTs(j))]
            /\ XRows[j][2] = IF XNouns(j) = {} THEN 0 ELSE x_glove[First(XNouns(j))]
            /\ XRows[j][3] = IF XArticleDTs(j) = {} \/ XNouns(j) = {} THEN 0
                             ELSE Abs(Last(XArticleDTs(j)) - First(XNouns(j)))

\* a site with two article determiners around two nouns has been scanned
C8_Witness ==
    /\ XDone
    /\ \E j \in 1..Len(XSites) :
        /\ Cardinality(XArticleDTs(j)) >= 2
        /\ Cardinality(XNouns(j)) >= 1
        /\ First(XArticleDTs(j)) < First(XNouns(j))
        /\ First(XNouns(j)) < Last(XArticleDTs(j))
        /\ XRows[j][1] = x_glove[Last(XArticleDTs(j))]
        /\ XRows[j][1] # x_glove[First(XArticleDTs(j))]

\* C4 as stated: the label of a site is the class of the corrections entry at
\* the position of its FIRST article determiner, 0 when that entry is null.
C4_FirstDeterminerLabel ==
    (XDone /\ x_corrections # None) =>
        /\ x_ret[1].l # None
        /\ \A j \in 1..Len(XSites) :
            /\ x_ret[1].l[1][j] \in 0..3
            /\ x_ret[1].l[1][j] =
                 IF XArticleDTs(j) = {} THEN 0
                 ELSE IF x_corrections[1][First(XArticleDTs(j))] = None THEN 0
                 ELSE ClassOfName(x_corrections[1][First(XArticleDTs(j))][1])

\* C4 amended: the label of a site is the class of the corrections entry at the
\* position of the LAST article determiner of the site whose entry is not null,
\* 0 when the site has no such determiner; without a corrections list there is
\* no label vector at all.
C4_LastCorrectedLabel ==
    XDone =>
        /\ x_ret[1].err = None
        /\ x_corrections = None => x_ret[1].l = None
        /\ x_corrections # None =>
            /\ x_ret[1].l # None
            /\ Len(x_ret[1].l[1]) = Len(XSites)
            /\ \A j \in 1..Len(XSites) :
                /\ x_ret[1].l[1][j] \in 0..3
                /\ x_ret[1].l[1][j] =
                     IF XCorrected(j) = {} THEN 0
                     ELSE ClassOfName(x_corrections[1][Last(XCorrected(j))][1])

\* a site whose first article determiner has no correction and whose later
\* one has: the label is the later one's class
C4_Witness ==
    /\ XDone /\ x_corrections # None
    /\ \E j \in 1..Len(XSites) :
        /\ Cardinality(XArticleDTs(j)) >= 2
        /\ x_corrections[1][First(XArticleDTs(j))] = None
        /\ x_corrections[1][Last(XArticleDTs(j))] = Some(<<"T","h","e">>)
        /\ x_ret[1].l[1][j] = 3

-----------------------------------------------------------------------------
(* savePredictions *)

\* a number: its value in hundredths, and whether it is an int or a float
Num(kind, hundredths) == [kind |-> kind, hundredths |-> hundredths]
\* float(x)
Float(x) == [x EXCEPT !.kind = "float"]

\* the body of the loop over the slots of a sentence: the appended entry, or
\* the exception of the sanity check ("Wrong class found: " + w[0] adds an int
\* to a str, so the raise statement fails with TypeError)
SaveSlot_upper(w) ==
    IF w[1] < 0 \/ w[1] > DT_THE THEN [err |-> Some("TypeError"), val |-> None]
    ELSE IF w[1] = 0 THEN [err |-> None, val |-> None]
    ELSE [err |-> None, val |-> <<DT_nameByValue(w[1]).val, Float(w[2])>>]
SaveSlot(w) ==
    IF w[1] < 0 \/ w[1] > DT_THE THEN [err |-> Some("TypeError"), val |-> None]
    ELSE IF w[1] = 0 THEN [err |-> None, val |-> None]
    ELSE [err |-> None, val |-> <<Lower(DT_nameByValue(w[1]).val), Float(w[2])>>]

\* savePredictions(predictions, file): the list dumped to the file, or the
\* exception raised before the file is opened
savePredictions(preds) ==
    LET slots == [i \in 1..Len(preds) |-> [j \in 1..Len(preds[i]) |-> SaveSlot(preds[i][j])]]
        bad == {i \in 1..Len(preds) : \E j \in 1..Len(preds[i]) : slots[i][j].err # None}
    IN  IF bad # {}
        THEN [err |-> Some("TypeError"), dumped |-> None]
        ELSE [err |-> None,
              dumped |-> Some([i \in 1..Len(preds) |->
                                 [j \in 1..Len(preds[i]) |-> slots[i][j].val]])]

\* prediction slots [class, confidence]
SlotPool ==
    { <<0 - 1, Num("float", 70)>>, <<0, Num("float", 0)>>,
      <<1, Num("float", 70)>>, <<2, Num("int", 100)>>, <<3, Num("float", 91)>>,
      <<4, Num("float", 91)>> }

\* the sentences of the given lengths cut out of a flat sequence of slots
RECURSIVE Cut(_, _)
Cut(flat, lens) ==
    IF lens = <<>> THEN <<>>
    ELSE <<SubSeq(flat, 1, Head(lens))>>
           \o Cut(SubSeq(flat, Head(lens) + 1, Len(flat)), Tail(lens))

PredictionLists ==
    UNION { { Cut(flat, lens) : flat \in [1..SumSeq(lens) -> SlotPool] } :
            lens \in { l \in UNION {[1..s -> 0..MaxSlots] : s \in 0..MaxSentences} :
                       SumSeq(l) <= MaxSlots } }

-----------------------------------------------------------------------------
(* Calls of the DT registry and of savePredictions. *)

InitCodec ==
    /\ pc = "c_call"
    /\ IdleExtract /\ IdleCodec /\ IdlePipeline

CallNameByValue ==
    /\ pc = "c_call"
    /\ \E v \in (DT_A - 2)..(DT_THE + 2) :
        /\ dt_value' = v
        /\ dt_name' = Some(DT_nameByValue(v))
    /\ pc' = "c_named"
    /\ UNCHANGED <<dt_back, predictions, out, file_written, vars_extract,
                   vars_main, vars_files, vars_create, vars_decode>>

\* DT.valueByName on the name just returned, as it is or lower-cased, or on a
\* name that is no member
CallValueByName ==
    /\ pc = "c_named"
    /\ dt_name[1].err = None
    /\ \E nm \in {dt_name[1].val, Lower(dt_name[1].val), <<"x">>} :
        dt_back' = Some([name |-> nm, res |-> DT_valueByName(nm)])
    /\ pc' = "c_back"
    /\ UNCHANGED <<dt_value, dt_name, predictions, out, file_written,
                   vars_extract, vars_main, vars_files, vars_create, vars_decode>>

CallSavePredictions ==
    /\ pc = "c_call"
    /\ \E p \in PredictionLists :
        LET saved == savePredictions(p)
        IN  /\ predictions' = p
            /\ out' = saved.dumped
            /\ err' = saved.err
            /\ file_written' = (saved.err = None)
    /\ pc' = "c_saved"
    /\ UNCHANGED <<dt_value, dt_name, dt_back, vars_extract, entry, corpora,
                   test, dir_exists, io, vars_files, vars_create, vars_decode>>

NextCodec == CallNameByValue \/ CallValueByName \/ CallSavePredictions

SpecCodec == InitCodec /\ [][NextCodec]_vars

\* C1: nameByValue fails for every value outside {1,2,3} and succeeds inside;
\* valueByName of the returned name, as it is or lower-cased, is the value
\* again; exactly one member name has each of the values 1, 2, 3.
C1_RoundTrip ==
    /\ \A v \in 1..3 :
         Cardinality({k \in 1..Len(DTMembers) : DTMembers[k].value = v}) = 1
    /\ pc \in {"c_named", "c_back"} =>
        /\ dt_value \notin 1..3 => dt_name[1].err # None
        /\ dt_value \in 1..3 =>
            /\ dt_name[1].err = None
            /\ dt_name[1].val = <<<<"A">>, <<"A","N">>, <<"T","H","E">>>>[dt_value]
    /\ (pc = "c_back" /\ dt_back[1].name # <<"x">>) =>
        /\ dt_back[1].res.err = None
        /\ dt_back[1].res.val = dt_value

\* the value 2 has gone to "AN", lower-cased to "an", and back to 2
C1_Witness ==
    /\ pc = "c_back" /\ dt_value = 2
    /\ dt_back[1].name = <<"a","n">>
    /\ dt_back[1].res.val = 2

SlotNameOf(v) == << <<"a">>, <<"a","n">>, <<"t","h","e">> >>[v]
SavedBad == \E i \in 1..Len(predictions) : \E j \in 1..Len(predictions[i]) :
                predictions[i][j][1] \notin 0..3

\* C6: with a class outside 0..3 in some slot savePredictions fails and writes
\* no file; otherwise the file holds, sentence by sentence and slot by slot,
\* null for class 0 and [lower-case name, confidence] for the classes 1, 2, 3,
\* the confidence being the same number.
C6_SavePredictions ==
    pc = "c_saved" =>
        /\ SavedBad => err # None /\ out = None /\ ~file_written
        /\ ~SavedBad =>
            /\ err = None /\ file_written /\ out # None
            /\ Len(out[1]) = Len(predictions)
            /\ \A i \in 1..Len(predictions) :
                /\ Len(out[1][i]) = Len(predictions[i])
                /\ \A j \in 1..Len(predictions[i]) :
                    IF predictions[i][j][1] = 0 THEN out[1][i][j] = None
                    ELSE /\ Len(out[1][i][j]) = 2
                         /\ out[1][i][j][1] = SlotNameOf(predictions[i][j][1])
                         /\ out[1][i][j][2].hundredths = predictions[i][j][2].hundredths

\* (0, 0.0), (1, 0.7) and (3, 0.91) have been saved as null, ["a", 0.7] and
\* ["the", 0.91], in two sentences
C6_Witness ==
    /\ pc = "c_saved" /\ file_written
    /\ predictions = << <<<<0, Num("float", 0)>>, <<1, Num("float", 70)>>>>,
                        <<<<3, Num("float", 91)>>>> >>
    /\ out[1] = << <<None, <<<<"a">>, Num("float", 70)>>>>,
                   <<<<<<"t","h","e">>, Num("float", 91)>>>> >>

\* a class 4 in the second sentence has stopped the call before the file
C6_WitnessError ==
    /\ pc = "c_saved" /\ ~file_written /\ err = Some("TypeError")
    /\ Len(predictions) = 2
    /\ \E j \in 1..Len(predictions[2]) : predictions[2][j][1] = 4

-----------------------------------------------------------------------------
(* config.py: the names the module defines. *)

ConfigEntries ==
    { "data_dir", "out_dir", "intermediate_dir", "unit_tests_dir", "models_dir",
      "sentence_train_path", "parse_train_path", "glove_train_path",
      "corrections_train_path", "pos_tags_train_path",
      "sentence_validate_path", "parse_validate_path", "glove_validate_path",
      "corrections_validate_path", "pos_tags_validate_path",
      "sentence_test_path", "parse_test_path", "glove_test_path",
      "pos_tags_test_path",
      "train_features_path", "train_labels_path",
      "validate_features_path", "validate_labels_path",
      "test_features_path", "test_labels_prob_path", "test_reults_path" }

\* the config attributes a branch of the entry point evaluates, in order,
\* as the arguments of its call of create
BranchArgs(branch) ==
    << "sentence_" \o branch \o "_path", "parse_" \o branch \o "_path",
       "glove_" \o branch \o "_path", "corrections_" \o branch \o "_path" >>

\* the if/elif chain on args.corpora
Branch_default(name) ==
    IF name = "validate" THEN "validate"
    ELSE IF name = "test" THEN "test"
    ELSE "train"
Branch(name) ==
    IF name = "train" THEN "train"
    ELSE IF name = "validate" THEN "validate"
    ELSE IF name = "test" THEN "test"
    ELSE "unknown"

Event(op, what) == [op |-> op, what |-> what]

-----------------------------------------------------------------------------
(* create *)

\* lines 192-200: the sanity checks on the sentence counts.  The message of
\* the third one formats len(corrections), a name that is unbound when test
\* is True, so that raise fails with UnboundLocalError.
CountsError(tst, n_text, n_trees, n_corr, n_glove) ==
    IF n_text # n_trees THEN Some("Exception")
    ELSE IF tst = FALSE /\ n_corr # n_trees THEN Some("Exception")
    ELSE IF n_glove # n_trees THEN
        (IF tst THEN Some("UnboundLocalError") ELSE Some("Exception"))
    ELSE None

\* lines 223-231: the sanity checks on one sentence
SentenceError_notext(tst, s_corr, g_list, t_list, lvs) ==
    IF tst = FALSE /\ Len(s_corr) # Len(lvs) THEN Some("Exception")
    ELSE IF Len(g_list) # Len(lvs) THEN Some("Exception")
    ELSE None
SentenceError(tst, s_corr, g_list, t_list, lvs) ==
    IF tst = FALSE /\ Len(s_corr) # Len(lvs) THEN Some("Exception")
    ELSE IF Len(g_list) # Len(lvs) THEN Some("Exception")
    ELSE IF Len(t_list) # Len(lvs) THEN Some("Exception")
    ELSE None

\* a list one entry shorter than the sentence
Shorter(lst) == SubSeq(lst, 1, Len(lst) - 1)

\* the sentences of a corpus file: right-branching trees over "the" and "cat"
CorpusTrees ==
    UNION { Trees({DT_the, NN_cat}, n, {RightSpans(n)}) : n \in 0..(MaxLeaves - 1) }
GloveOf(node) == [k \in 1..Len(node.leaves) |-> 10 * k]
\* corrections of a sentence: "an" at its first article, null elsewhere
CorrOf(node) ==
    [k \in 1..Len(node.leaves) |->
        IF IsArticleDT(node.leaves[k])
           /\ \A i \in 1..(k - 1) : ~IsArticleDT(node.leaves[i])
        THEN Some(<<"a","n">>) ELSE None]
\* the entries of the text, embedding and corrections files for a sentence:
\* each list as long as the sentence or one entry longer, or one of them one
\* entry shorter
SentenceLists(node) ==
    ({TextOf(node), Append(TextOf(node), <<"x">>)}
        \X {GloveOf(node), Append(GloveOf(node), 0)}
        \X {CorrOf(node), Append(CorrOf(node), None)})
    \cup (IF node.leaves = <<>> THEN {}
          ELSE { <<Shorter(TextOf(node)), GloveOf(node), CorrOf(node)>>,
                 <<TextOf(node), Shorter(GloveOf(node)), CorrOf(node)>>,
                 <<TextOf(node), GloveOf(node), Shorter(CorrOf(node))>> })

\* lines 183-200: the files are read and the sentence counts compared.  Of
\* the content of the files this step fixes the lengths; the sentences are
\* fixed when the loop reaches them.
CreateRead ==
    /\ pc = "cr_read"
    /\ \E nt \in 0..MaxSentences, np \in 0..MaxSentences, ng \in 0..MaxSentences,
          nc \in (IF test THEN {0} ELSE 0..MaxSentences) :
        /\ text_len' = nt /\ trees_len' = np /\ glove_len' = ng /\ corr_len' = nc
        /\ err' = CountsError(test, nt, np, nc, ng)
        /\ pc' = IF CountsError(test, nt, np, nc, ng) # None THEN "failed" ELSE "cr_loop"
    /\ io' = io \o << Event("read", "corpus_file"), Event("read", "parse_tree_file"),
                      Event("read", "glove_file") >>
                \o (IF test = FALSE THEN << Event("read", "corrections_file") >> ELSE <<>>)
    /\ index' = 0 /\ features' = None /\ labels' = None
    /\ UNCHANGED <<vars_extract, vars_codec, entry, corpora, test, dir_exists,
                   text_data, parse_trees_list, glove_indices, corrections,
                   row_sentence, ret, vars_decode>>

\* lines 207-251: one pass of the loop over parse_trees_list
CreateSentence ==
    /\ pc = "cr_loop"
    /\ index < trees_len
    /\ \E tree \in CorpusTrees :
       \E lists \in SentenceLists(tree) :
        LET t_list == lists[1]
            g_list == lists[2]
            s_corr == lists[3]
            check == SentenceError(test, s_corr, g_list, t_list, leaves(tree))
            fl == extractFeatures(tree, t_list, g_list,
                                  IF test THEN None ELSE Some(s_corr))
        IN  /\ parse_trees_list' = Append(parse_trees_list, tree)
            /\ text_data' = Append(text_data, t_list)
            /\ glove_indices' = Append(glove_indices, g_list)
            /\ corrections' = IF test THEN corrections ELSE Append(corrections, s_corr)
            /\ IF check # None
               THEN /\ err' = check /\ pc' = "failed"
                    /\ UNCHANGED <<index, features, labels, row_sentence>>
               ELSE IF fl.err # None
               THEN /\ err' = fl.err /\ pc' = "failed"
                    /\ UNCHANGED <<index, features, labels, row_sentence>>
               ELSE /\ features' = IF index = 0 THEN Some(fl.f)
                                   ELSE Some(features[1] \o fl.f)
                    /\ labels' = IF index = 0 THEN fl.l
                                 ELSE IF test = FALSE THEN Some(labels[1] \o fl.l[1])
                                 ELSE labels
                    /\ row_sentence' = row_sentence \o [k \in 1..Len(fl.f) |-> index]
                    /\ index' = index + 1
                    /\ UNCHANGED <<err, pc>>
    /\ UNCHANGED <<vars_extract, vars_codec, entry, corpora, test, dir_exists, io,
                   text_len, trees_len, glove_len, corr_len, ret, vars_decode>>

\* lines 254-256: print(... len(features)) and the return.  With no sentence
\* features is still None and len(features) raises TypeError.
CreateReturn ==
    /\ pc = "cr_loop"
    /\ index = trees_len
    /\ IF features = None
       THEN /\ err' = Some("TypeError") /\ pc' = "failed" /\ UNCHANGED <<ret, io>>
       ELSE /\ ret' = Some([features |-> features[1], labels |-> labels])
            /\ io' = Append(io, Event("print", "Features collected"))
            /\ pc' = IF entry = "main" THEN "m_save" ELSE "returned"
            /\ UNCHANGED err
    /\ UNCHANGED <<vars_extract, vars_codec, entry, corpora, test, dir_exists,
                   vars_files, index, features, labels, row_sentence, vars_decode>>

-----------------------------------------------------------------------------
(* The entry point (__main__). *)

\* lines 346-349: the output directory is created when missing, then the
\* progress line is printed
MainMakeDirs ==
    /\ pc = "m_start"
    /\ dir_exists' = TRUE
    /\ io' = (IF dir_exists THEN io ELSE Append(io, Event("makedirs", "intermediate_dir")))
               \o << Event("print", "Making features") >>
    /\ pc' = "m_dispatch"
    /\ UNCHANGED <<vars_extract, vars_codec, entry, corpora, test, err,
                   vars_files, vars_create, vars_decode>>

\* a branch evaluates its config attributes and calls create; an attribute
\* config.py does not define raises AttributeError before the call
CallCreate(branch, tst) ==
    /\ IF \A k \in 1..Len(BranchArgs(branch)) : BranchArgs(branch)[k] \in ConfigEntries
       THEN /\ test' = tst /\ pc' = "cr_read" /\ UNCHANGED err
       ELSE /\ err' = Some("AttributeError") /\ pc' = "failed" /\ UNCHANGED test
    /\ UNCHANGED <<vars_extract, vars_codec, entry, corpora, dir_exists, io,
                   vars_files, vars_create, vars_decode>>

\* lines 353-357
MainTrain ==
    /\ pc = "m_dispatch" /\ Branch(corpora) = "train"
    /\ CallCreate("train", FALSE)

\* lines 363-367
MainValidate ==
    /\ pc = "m_dispatch" /\ Branch(corpora) = "validate"
    /\ CallCreate("validate", FALSE)

\* lines 373-378
MainTest ==
    /\ pc = "m_dispatch" /\ Branch(corpora) = "test"
    /\ CallCreate("test", TRUE)

\* lines 380-381
MainUnknown ==
    /\ pc = "m_dispatch" /\ Branch(corpora) = "unknown"
    /\ err' = Some("Exception") /\ pc' = "failed"
    /\ UNCHANGED <<vars_extract, vars_codec, entry, corpora, test, dir_exists, io,
                   vars_files, vars_create, vars_decode>>

\* lines 358-359, 368-369, 379: np.save of what create returned
MainSave ==
    /\ pc = "m_save"
    /\ io' = io \o << Event("save", Branch(corpora) \o "_features_path") >>
                \o (IF Branch(corpora) = "test" THEN <<>>
                    ELSE << Event("save", Branch(corpora) \o "_labels_path") >>)
    /\ pc' = "m_done"
    /\ UNCHANGED <<vars_extract, vars_codec, entry, corpora, test, dir_exists, err,
                   vars_files, vars_create, vars_decode>>

-----------------------------------------------------------------------------
(* predictionsFromLabels *)

\* labels[lo : hi,]: a slice stops at the end of the array
Slice(arr, lo, hi) == SubSeq(arr, lo + 1, Min(hi, Len(arr)))

\* predictinsForSentence: the source has the def line and no body; the model
\* keeps the arguments of the call as its result
predictinsForSentence(sentence, labs, dpa_nodes) ==
    [sentence |-> sentence, labels |-> labs, dpa_nodes |-> dpa_nodes]

\* l_index += len(dpa_nodes)
NextCursor_one(cursor, dpa_nodes) == cursor + 1
NextCursor(cursor, dpa_nodes) == cursor + Len(dpa_nodes)

\* lines 272-276, called with one prediction per row of the features matrix
\* create returned for the same files; prediction k carries its row number
PflRead ==
    /\ pc = "returned"
    /\ \E c \in {0, 3} :
        pred_labels' = [k \in 1..Len(features[1]) |-> [row |-> k - 1, class |-> c]]
    /\ io' = io \o << Event("read", "corpus_file"), Event("read", "parse_tree_file") >>
    /\ l_index' = 0 /\ res_list' = <<>>
    /\ pc' = "pfl_loop"
    /\ UNCHANGED <<vars_extract, vars_codec, entry, corpora, test, dir_exists, err,
                   vars_files, vars_create>>

\* lines 277-284: one pass of the loop, i = len(res_list)
PflSentence ==
    /\ pc = "pfl_loop"
    /\ Len(res_list) < trees_len
    /\ LET i == Len(res_list)
           sentence == text_data[i + 1]
           dpa_nodes == dpaSubtrees(parse_trees_list[i + 1])
       IN  /\ res_list' = Append(res_list,
                 predictinsForSentence(sentence,
                     Slice(pred_labels, l_index, l_index + Len(dpa_nodes)), dpa_nodes))
           /\ l_index' = NextCursor(l_index, dpa_nodes)
    /\ UNCHANGED <<pc, pred_labels, vars_extract, vars_codec, vars_main,
                   vars_files, vars_create>>

\* line 286
PflReturn ==
    /\ pc = "pfl_loop"
    /\ Len(res_list) = trees_len
    /\ pc' = "pfl_done"
    /\ UNCHANGED <<vars_extract, vars_codec, vars_main, vars_files, vars_create,
                   vars_decode>>

-----------------------------------------------------------------------------
(* The program: the entry point run with some corpora argument, or create   *)
(* called directly, followed by predictionsFromLabels on the same files.    *)

Init ==
    /\ IdleExtract /\ IdleCodec
    /\ io = <<>> /\ err = None
    /\ text_len = 0 /\ trees_len = 0 /\ glove_len = 0 /\ corr_len = 0
    /\ text_data = <<>> /\ parse_trees_list = <<>> /\ glove_indices = <<>>
    /\ corrections = <<>>
    /\ index = 0 /\ features = None /\ labels = None /\ row_sentence = <<>>
    /\ ret = None
    /\ pred_labels = <<>> /\ l_index = 0 /\ res_list = <<>>
    /\ entry \in {"main", "create"}
    /\ IF entry = "main"
       THEN /\ pc = "m_start" /\ test = FALSE
            /\ corpora \in {"train", "validate", "test", "dev"}
            /\ dir_exists \in BOOLEAN
       ELSE /\ pc = "cr_read" /\ test \in BOOLEAN
            /\ corpora = "" /\ dir_exists = TRUE

Next ==
    \/ MainMakeDirs
    \/ MainTrain
    \/ MainValidate
    \/ MainTest
    \/ MainUnknown
    \/ CreateRead
    \/ CreateSentence
    \/ CreateReturn
    \/ MainSave
    \/ PflRead
    \/ PflSentence
    \/ PflReturn

Spec == Init /\ [][Next]_vars

-----------------------------------------------------------------------------
(* Properties of the entry point, create and predictionsFromLabels. *)

Happened(op, what) == \E k \in 1..Len(io) : io[k] = Event(op, what)
Ops == {io[k].op : k \in 1..Len(io)}
CreateCalled == Happened("read", "parse_tree_file")
CreateEnded == CreateCalled /\ pc \notin {"cr_read", "cr_loop"}
Recognised == {"train", "validate", "test"}

\* the sentences the loop of create has reached
Reached == 1..Len(parse_trees_list)
LeafCount(i) == Len(parse_trees_list[i].leaves)
SiteCount(i) == Len(dpaSubtrees(parse_trees_list[i]))
SitesBefore(i) == SumSeq([j \in 1..(i - 1) |-> SiteCount(j)])
CountsDiffer ==
    \/ text_len # trees_len
    \/ glove_len # trees_len
    \/ (~test /\ corr_len # trees_len)
SentenceDiffers(i) ==
    \/ Len(text_data[i]) # LeafCount(i)
    \/ Len(glove_indices[i]) # LeafCount(i)
    \/ (~test /\ Len(corrections[i]) # LeafCount(i))
Misaligned == CountsDiffer \/ \E i \in Reached : SentenceDiffers(i)

\* C2: once create has ended on aligned corpora of any number of sentences it
\* has returned a features matrix of 39 columns with one row per candidate
\* site, the rows of a sentence before those of the next, and a label vector
\* of the same length in training mode, none in inference mode.
C2_RowCount ==
    (CreateEnded /\ ~Misaligned) =>
        /\ ret # None
        /\ Len(ret[1].features) = SitesBefore(trees_len + 1)
        /\ \A k \in 1..Len(ret[1].features) : Len(ret[1].features[k]) = 39
        /\ \A k \in 1..Len(row_sentence) : row_sentence[k] + 1 \in Reached
        /\ \A k \in 1..(Len(row_sentence) - 1) : row_sentence[k] <= row_sentence[k + 1]
        /\ \A i \in Reached :
             Cardinality({k \in 1..Len(row_sentence) : row_sentence[k] = i - 1}) = SiteCount(i)
        /\ ~test => ret[1].labels # None /\ Len(ret[1].labels[1]) = Len(ret[1].features)
        /\ test => ret[1].labels = None

\* the same for corpora of at least one sentence
C2_RowCountNonEmpty == trees_len >= 1 => C2_RowCount

\* C3: when the sentence counts of the corpora differ, or the lists of a
\* sentence differ in length from its leaves (the corrections only in
\* training mode), create has failed: nothing is returned and the entry point
\* saves nothing; in inference mode the corrections file is not even read.
C3_Alignment ==
    /\ (CreateCalled /\ Misaligned) =>
        /\ pc = "failed" /\ err # None /\ ret = None
        /\ "save" \notin Ops
    /\ (CreateCalled /\ test) => ~Happened("read", "corrections_file")

\* the entry point has failed on the second sentence of the train corpus, whose
\* text is longer than its tree, after the rows of the first were collected
C3_Witness ==
    /\ entry = "main" /\ corpora = "train" /\ pc = "failed"
    /\ index = 1 /\ features # None /\ Len(features[1]) >= 1
    /\ Len(parse_trees_list) = 2
    /\ Len(text_data[2]) = LeafCount(2) + 1
    /\ Len(glove_indices[2]) = LeafCount(2)
    /\ Len(corrections[2]) = LeafCount(2)
    /\ "save" \notin Ops

\* the labels handed to predictinsForSentence for sentence i, as row numbers
SliceRows(i) == [m \in 1..Len(res_list[i].labels) |-> res_list[i].labels[m].row]

\* C5: before sentence i the cursor is the number of sites of the sentences
\* before it; sentence i gets the SiteCount(i) rows from the cursor on, which
\* are the rows create made for that sentence; at the end the cursor is the
\* number of rows.
C5_Cursor ==
    pc \in {"pfl_loop", "pfl_done"} =>
        /\ l_index = SitesBefore(Len(res_list) + 1)
        /\ \A i \in 1..Len(res_list) :
            /\ Len(SliceRows(i)) = SiteCount(i)
            /\ \A m \in 1..SiteCount(i) :
                /\ SliceRows(i)[m] = SitesBefore(i) + m - 1
                /\ row_sentence[SliceRows(i)[m] + 1] = i - 1
            /\ \A k \in 1..Len(row_sentence) :
                row_sentence[k] = i - 1 => \E m \in 1..SiteCount(i) : SliceRows(i)[m] = k - 1
        /\ pc = "pfl_done" =>
            /\ Len(res_list) = trees_len
            /\ l_index = Len(features[1])

\* two sentences of two sites and one site: the second gets row 2 alone
C5_Witness ==
    /\ pc = "pfl_done" /\ Len(res_list) = 2
    /\ SiteCount(1) = 2 /\ SiteCount(2) = 1
    /\ SliceRows(1) = <<0, 1>> /\ SliceRows(2) = <<2>>
    /\ l_index = 3

\* C7 as stated: with an unrecognised partition name nothing is done before
\* the error, no directory made, no file read, no file written.
C7_NoIOBeforeError ==
    (entry = "main" /\ corpora \notin Recognised) =>
        /\ "makedirs" \notin Ops /\ "read" \notin Ops /\ "save" \notin Ops

\* C7 amended: with an unrecognised partition name the run fails with the
\* error and no file is ever read or written; the output directory has been
\* made before that whenever it was missing.
C7_NoCorpusIOBeforeError ==
    (entry = "main" /\ corpora \notin Recognised) =>
        /\ "read" \notin Ops /\ "save" \notin Ops
        /\ pc \in {"m_start", "m_dispatch", "failed"}
        /\ pc = "failed" => err = Some("Exception")
        /\ pc # "m_start" => dir_exists

\* the run has failed on "dev" after making the missing directory
C7_Witness ==
    /\ entry = "main" /\ corpora = "dev" /\ pc = "failed"
    /\ err = Some("Exception")
    /\ Happened("makedirs", "intermediate_dir")

\* C10: a recognised partition fails, if at all, after its build has started;
\* train and validate build in training mode and save features and labels,
\* test builds in inference mode and saves the features alone.
C10_BranchesReachBuild ==
    (entry = "main" /\ corpora \in Recognised) =>
        /\ pc = "failed" => CreateCalled
        /\ CreateCalled => test = (corpora = "test")
        /\ pc = "m_done" =>
            /\ Happened("save", corpora \o "_features_path")
            /\ Happened("save", corpora \o "_labels_path") = (corpora # "test")

====
